---- MODULE Spec2Model ----
(***************************************************************************)
(* Model of the Tecan Cavro XL3000 syringe pump driver                     *)
(* (tecancavro/syringe.py, tecancavro/XL3000.py).                          *)
(*                                                                         *)
(* The driver is sequential Python.  Its call stack is modelled by the     *)
(* variable `stack' (a sequence of frames, top first), an exception in     *)
(* flight by `exc', the value returned by the last completed call by `rv'. *)
(* The pump and the transport are the environment: every exchange draws    *)
(* the response (status byte and data payload) nondeterministically.       *)
(*                                                                         *)
(* Units: times are integer milliseconds (the Python code uses float       *)
(* seconds); command strings are TLA+ strings built with \o and ToString.  *)
(***************************************************************************)
EXTENDS Integers, Sequences, FiniteSets, TLC

(***************************************************************************)
(* Bounds of the model                                                     *)
(***************************************************************************)
\* public calls the user makes to an instance whose pump may fault, and
\* applications of a function applied on its own
MaxCalls == 1
\* public calls the user makes to an instance whose pump never faults
MaxChainCalls == 2
\* responses with a non-zero error code, or with a payload that is no
\* number, that a pump that may fault gives
MaxFaults == 2
\* responses with the ready flag cleared that the pump gives
MaxBusy == 1
\* reading of time.time() (ms) when a public call starts
Epoch == 1000000
\* chain-building calls without execute the user makes in a row
MaxQueueCalls == 3
\* largest number of valve ports for which the direction choice is applied
MaxPorts == 9
\* public calls among init, waitReady and terminateCmd the user makes in a
\* row to an instance whose pump may fault
MaxPollCalls == 2
\* changePort calls without execute the user makes in a row
MaxValveCalls == 2

(***************************************************************************)
(* Constructor arguments of the modelled instance (XL3000.__init__)        *)
(***************************************************************************)
num_ports == 8
syringe_ul == 1000
init_port == 1
init_force == 0 - 1
slope == 14

(***************************************************************************)
(* Exceptions and return values                                            *)
(***************************************************************************)
NoExc == [t |-> "none", code |-> 0]
SyringeError(c) == [t |-> "SyringeError", code |-> c]
PyError(name) == [t |-> name, code |-> 0]
\* values a call returns: None, a string or a number
None == [t |-> "None", s |-> "", n |-> 0]
Str(x) == [t |-> "str", s |-> x, n |-> 0]
Num(x) == [t |-> "num", s |-> "", n |-> x]

\* a handler that also retries after code 2 (plunger overload)
RecoverableWithOverload == {2, 7, 9, 10}

\* XL3000._syringeErrorHandler: `e.err_code in [7, 9, 10]`
Recoverable == {7, 9, 10}

(***************************************************************************)
(* Status byte: '01R0EEEE' as a sequence of 8 bits, index 2 (0-based) the  *)
(* ready flag, indices 4..7 the error code, most significant bit first.    *)
(***************************************************************************)
StatusByte(r, e) ==
    << 0, 1, r, 0, (e \div 8) % 2, (e \div 4) % 2, (e \div 2) % 2, e % 2 >>

\* int(status_byte[4:8], 2)   (Python index i is TLA+ index i+1)
StatusErrorCode(sb) == 8 * sb[5] + 4 * sb[6] + 2 * sb[7] + sb[8]
\* a decoder that reads the flag one character early
StatusReadyOffByOne(sb) == sb[2]

\* int(status_byte[2])
StatusReady(sb) == sb[3]

(***************************************************************************)
(* Protocol tables                                                         *)
(***************************************************************************)
\* XL3000.SPEED_CODES as the dict literal evaluates: the literal writes the
\* key 17 twice (17: 200 and, between 26 and 28, 17: 100), so key 17 maps to
\* 100 and key 27 is absent.
SPEED_CODES ==
    [c \in (0..40) \ {27} |->
        CASE c = 0 -> 6000 [] c = 1 -> 5600 [] c = 2 -> 5000 [] c = 3 -> 4400
          [] c = 4 -> 3800 [] c = 5 -> 3200 [] c = 6 -> 2600 [] c = 7 -> 2200
          [] c = 8 -> 2000 [] c = 9 -> 1800 [] c = 10 -> 1600 [] c = 11 -> 1400
          [] c = 12 -> 1200 [] c = 13 -> 1000 [] c = 14 -> 800 [] c = 15 -> 600
          [] c = 16 -> 400 [] c = 17 -> 100 [] c = 18 -> 190 [] c = 19 -> 180
          [] c = 20 -> 170 [] c = 21 -> 160 [] c = 22 -> 150 [] c = 23 -> 140
          [] c = 24 -> 130 [] c = 25 -> 120 [] c = 26 -> 110 [] c = 28 -> 90
          [] c = 29 -> 80 [] c = 30 -> 70 [] c = 31 -> 60 [] c = 32 -> 50
          [] c = 33 -> 40 [] c = 34 -> 30 [] c = 35 -> 20 [] c = 36 -> 18
          [] c = 37 -> 16 [] c = 38 -> 14 [] c = 39 -> 12 [] c = 40 -> 10]

\* XL3000._calcInitForce
calcInitForce ==
    IF syringe_ul <= 100 THEN 2 ELSE IF syringe_ul <= 500 THEN 1 ELSE 0

(***************************************************************************)
(* Integer helpers                                                         *)
(***************************************************************************)
Abs(x) == IF x < 0 THEN 0 - x ELSE x

RECURSIVE IsqrtIter(_, _)
IsqrtIter(n, x) ==
    LET y == (x + n \div x) \div 2 IN IF y >= x THEN x ELSE IsqrtIter(n, y)

\* floor of math.sqrt(n)
Isqrt(n) == IF n < 2 THEN n ELSE IsqrtIter(n, n)

\* a timing model that counts steps where the code counts half-steps
calcPlungerMoveTimeFullSteps(sd, move_steps) ==
    [k |-> "ok",
     ms |-> (1000 * (IF sd.microstep THEN move_steps \div 8 ELSE move_steps))
                \div sd.top_speed]

(***************************************************************************)
(* XL3000._calcPlungerMoveTime.  `sd' is the simulated state, `move_steps' *)
(* the step count.  The result names how the call ends (k) and, when it    *)
(* returns, the move time in ms (floor).  The comparisons of the code are  *)
(* between square roots and integers; they are taken on the squares, which *)
(* is exact.  With k = slope * 2500 and s = move_steps (/ 8 in microstep   *)
(* mode):  X1 = 4sk + v0^2,  T2 = 2 * theo_top_speed^2.                     *)
(***************************************************************************)
calcPlungerMoveTime(sd, move_steps) ==
    LET v0 == sd.start_speed
        vt == sd.top_speed
        vc == sd.cutoff_speed
        c == sd.slope
        s8 == IF sd.microstep THEN move_steps ELSE 8 * move_steps
        X1 == s8 * 1250 * c + v0 * v0
        first == X1 < vc * vc
        firstT == 1000 * Isqrt(X1) - (2 * v0) \div (5 * c)
        T2 == IF first THEN 2 * X1 ELSE s8 * 1250 * c + v0 * v0 + vc * vc
        R == 2 * vt * vt - v0 * v0 - vc * vc
    IN  IF 2 * vc * vc < T2 /\ T2 < 2 * vt * vt
        THEN [k |-> "ok", ms |-> (2 * (Isqrt(2 * T2) - v0 - vc)) \div (5 * c)]
        ELSE IF v0 = vt /\ vt = vc
        THEN IF vt = 0
             THEN [k |-> "ZeroDivisionError", ms |-> 0]
             ELSE [k |-> "ok", ms |-> (250 * s8) \div vt]
        ELSE IF R < 10000 * c * vt
        THEN IF vt = 0
             THEN [k |-> "ZeroDivisionError", ms |-> 0]
             ELSE [k |-> "ok",
                   ms |-> (2 * (2 * vt - v0 - vc) * vt + s8 * 1250 * c - R)
                              \div (5 * c * vt)]
        ELSE IF first
        THEN [k |-> "ok", ms |-> firstT]
        ELSE [k |-> "UnboundLocalError", ms |-> 0]

(***************************************************************************)
(* State                                                                   *)
(***************************************************************************)
VARIABLES
    state,             \* XL3000.state: the confirmed state
    sim_state,         \* XL3000.sim_state: the simulated state
    sim_speed_change,  \* XL3000.sim_speed_change
    cmd_chain,         \* Syringe.cmd_chain
    exec_time,         \* Syringe.exec_time (ms)
    ready,             \* Syringe._ready
    prev_error_code,   \* Syringe._prev_error_code
    repeat_error,      \* Syringe._repeat_error
    last_cmd,          \* Syringe.last_cmd
    now,               \* time.time() (ms)
    stack,             \* call stack, top first
    exc,               \* exception in flight, or NoExc
    rv,                \* value returned by the call that returned last
    faults,            \* faulty responses the pump may still give
    busy,              \* not-ready responses the pump may still give
    calls,             \* public calls the user may still make
    op,                \* the public call running or made last
    raised,            \* exception the last public call ended with, or NoExc
    wire,              \* exchanges with the pump during the public call
    pending            \* tokens appended to the chain since its last reset

progVars == << state, sim_state, sim_speed_change, cmd_chain, exec_time,
               ready, prev_error_code, repeat_error, last_cmd, now >>
ctlVars == << stack, exc, rv >>
envVars == << faults, busy >>
histVars == << calls, op, raised, wire, pending >>
vars == << progVars, ctlVars, envVars, histVars >>

(***************************************************************************)
(* Chain-building functions (the bodies wrapped by @execWrap).  Each maps  *)
(* a builder record b (simulated state, chain string, estimated time,      *)
(* speed-change flag, token history, exception raised) to the builder      *)
(* after the call.                                                         *)
(***************************************************************************)
\* a builder that starts every call from the confirmed state
BuilderFromConfirmed ==
    [sim |-> state, chain |-> cmd_chain, time |-> exec_time,
     change |-> sim_speed_change, toks |-> pending, exc |-> NoExc]

Builder ==
    [sim |-> sim_state, chain |-> cmd_chain, time |-> exec_time,
     change |-> sim_speed_change, toks |-> pending, exc |-> NoExc]

Raise(b, e) == [b EXCEPT !.exc = e]

\* a chain that grows at the front
PrependToChain(chain, cmd_string) == cmd_string \o chain

\* self.cmd_chain += cmd_string
AddToChain(chain, cmd_string) == chain \o cmd_string

AppendCmd(b, cmd_string) ==
    [b EXCEPT !.chain = AddToChain(@, cmd_string),
              !.toks = Append(@, cmd_string)]

\* a speed change that leaves the cutoff speed alone
simIncToPulsesNoCutoff(sd, speed_inc) ==
    LET top_speed == SPEED_CODES[speed_inc]
    IN  [sd EXCEPT !.top_speed = top_speed,
                   !.start_speed = IF @ > top_speed THEN top_speed ELSE @]

\* XL3000._simIncToPulses (the key is known to be in SPEED_CODES)
simIncToPulses(sd, speed_inc) ==
    LET top_speed == SPEED_CODES[speed_inc]
    IN  [sd EXCEPT !.top_speed = top_speed,
                   !.start_speed = IF @ > top_speed THEN top_speed ELSE @,
                   !.cutoff_speed = IF @ > top_speed THEN top_speed ELSE @]

\* XL3000.setSpeed
setSpeed(b, speed_code) ==
    IF ~(0 <= speed_code /\ speed_code <= 40)
    THEN Raise(b, PyError("ValueError"))
    ELSE IF speed_code \notin DOMAIN SPEED_CODES
    THEN Raise([b EXCEPT !.change = TRUE], PyError("KeyError"))
    ELSE AppendCmd([b EXCEPT !.change = TRUE,
                             !.sim = simIncToPulses(@, speed_code)],
                   "S" \o ToString(speed_code))

\* XL3000.setStartSpeed
setStartSpeed(b, pulses_per_sec) ==
    AppendCmd([b EXCEPT !.change = TRUE], "v" \o ToString(pulses_per_sec))

\* XL3000.setTopSpeed
setTopSpeed(b, pulses_per_sec) ==
    AppendCmd([b EXCEPT !.change = TRUE], "V" \o ToString(pulses_per_sec))

\* XL3000.setCutoffSpeed
setCutoffSpeed(b, pulses_per_sec) ==
    AppendCmd([b EXCEPT !.change = TRUE], "c" \o ToString(pulses_per_sec))

\* XL3000.setSlope
setSlope(b, slope_code) ==
    IF ~(1 <= slope_code /\ slope_code <= 20)
    THEN Raise(b, PyError("ValueError"))
    ELSE AppendCmd([b EXCEPT !.change = TRUE], "L" \o ToString(slope_code))

\* XL3000.changePort, lines 346-352: the two travel distances on a valve
\* of n ports
PortDeltasFor(n, from_port, to_port) ==
    LET diff == to_port - from_port
    IN  IF diff >= 0
        THEN [cw |-> diff, ccw |-> n - diff]
        ELSE [cw |-> n + diff, ccw |-> 0 - diff]

\* distances that ignore the way round the valve
PortDeltasNoWrap(from_port, to_port) ==
    [cw |-> Abs(to_port - from_port),
     ccw |-> num_ports - Abs(to_port - from_port)]

PortDeltas(from_port, to_port) == PortDeltasFor(num_ports, from_port, to_port)

\* a choice that sends a tie counter-clockwise
ChooseClockwiseStrict(clockwise, d) ==
    IF clockwise = "None" THEN d.cw < d.ccw ELSE clockwise = "True"

\* XL3000.changePort, lines 355-359: clockwise is "None", "True" or "False"
ChooseClockwise(clockwise, d) ==
    IF clockwise = "None" THEN d.cw <= d.ccw ELSE clockwise = "True"

\* XL3000.changePort
changePort(b, to_port, clockwise) ==
    IF ~(0 < to_port /\ to_port <= num_ports)
    THEN Raise(b, PyError("ValueError"))
    ELSE LET from_port == IF b.sim.port # 0 THEN b.sim.port ELSE init_port
             d == PortDeltas(from_port, to_port)
             cw == ChooseClockwise(clockwise, d)
             delta == IF cw THEN d.cw ELSE d.ccw
             port_cmd == IF cw THEN "I" ELSE "O"
         IN  [AppendCmd([b EXCEPT !.sim.port = to_port],
                        port_cmd \o ToString(to_port))
                EXCEPT !.time = @ + 20 * delta + 100]

\* a range check that ignores the step mode
AbsPositionValidFine(sd, abs_position) ==
    0 <= abs_position /\ abs_position <= 24000

\* XL3000.movePlungerAbs, lines 389-398.  The raise statements format their
\* message with self.port_num, an attribute the class never sets, so what
\* the call raises is an AttributeError.
AbsPositionValid(sd, abs_position) ==
    IF sd.microstep
    THEN 0 <= abs_position /\ abs_position <= 24000
    ELSE 0 <= abs_position /\ abs_position <= 3000

\* exec_time += _calcPlungerMoveTime(steps), after the token was appended
AddMoveTime(b, sd, steps) ==
    LET t == calcPlungerMoveTime(sd, steps)
    IN  IF t.k = "ok" THEN [b EXCEPT !.time = @ + t.ms]
        ELSE Raise(b, PyError(t.k))

\* XL3000.movePlungerAbs
movePlungerAbs(b, abs_position) ==
    IF ~AbsPositionValid(b.sim, abs_position)
    THEN Raise(b, PyError("AttributeError"))
    ELSE LET delta_pos == b.sim.plunger_pos - abs_position
             b1 == AppendCmd([b EXCEPT !.sim.plunger_pos = abs_position],
                             "A" \o ToString(abs_position))
         IN  AddMoveTime(b1, b1.sim, Abs(delta_pos))

\* XL3000.movePlungerRel
movePlungerRel(b, rel_position) ==
    LET cmd_string == IF rel_position < 0
                      THEN "D" \o ToString(Abs(rel_position))
                      ELSE "P" \o ToString(rel_position)
        b1 == AppendCmd([b EXCEPT !.sim.plunger_pos = @ + rel_position],
                        cmd_string)
    IN  AddMoveTime(b1, b1.sim, Abs(rel_position))

\* XL3000.repeatCmdSeq
repeatCmdSeq(b, num_repeats) ==
    IF ~(0 < num_repeats /\ num_repeats < 30000)
    THEN Raise(b, PyError("ValueError"))
    ELSE [AppendCmd(b, "G" \o ToString(num_repeats))
            EXCEPT !.time = @ * num_repeats]

\* XL3000.markRepeatStart
markRepeatStart(b) == AppendCmd(b, "g")

\* XL3000.delayExec
delayExec(b, delay_ms) ==
    IF ~(0 < delay_ms /\ delay_ms < 30000)
    THEN Raise(b, PyError("ValueError"))
    ELSE [AppendCmd(b, "M" \o ToString(delay_ms)) EXCEPT !.time = @ + delay_ms]

(***************************************************************************)
(* The pump's answers.  A query ('?...') is answered with a payload from   *)
(* DataStrings, any other command with the empty payload.                  *)
(***************************************************************************)
DataInts == {2}
JunkData == "x"
ErrorCodes == {2, 9}

IsDecimal(data) == \E i \in DataInts : ToString(i) = data
\* int(data) for a decimal payload
ParseInt(data) == CHOOSE i \in DataInts : ToString(i) = data

IsQuery(cmd) == cmd \in {"?", "?1", "?2", "?3", "?4", "?6"}

Payloads(cmd) ==
    IF IsQuery(cmd) THEN {ToString(i) : i \in DataInts} ELSE {""}

Responses(cmd) ==
    LET flags == {x \in {0, 1} : x = 1 \/ busy > 0}
    IN  { [status_byte |-> StatusByte(r, 0), data |-> d] :
            r \in flags, d \in Payloads(cmd) }
        \cup
        { [status_byte |-> StatusByte(r, e), data |-> d] :
            r \in flags, e \in {x \in ErrorCodes : faults > 0}, d \in {""} }
        \cup
        { [status_byte |-> StatusByte(r, 0), data |-> d] :
            r \in flags, d \in {x \in {JunkData} : faults > 0 /\ IsQuery(cmd)} }

\* a decoder that counts only non-zero codes as repeats
checkStatusRepeatNonZero(status_byte, prev) ==
    LET error_code == StatusErrorCode(status_byte)
    IN  [ready |-> StatusReady(status_byte) = 1,
         repeat_error |-> error_code = prev /\ error_code # 0,
         prev_error_code |-> error_code,
         error_code |-> error_code]

(***************************************************************************)
(* Syringe._checkStatus: the new values of _ready, _repeat_error and       *)
(* _prev_error_code, and the error code raised (0: returns normally).      *)
(***************************************************************************)
checkStatus(status_byte, prev) ==
    LET error_code == StatusErrorCode(status_byte)
    IN  [ready |-> StatusReady(status_byte) = 1,
         repeat_error |-> error_code = prev,
         prev_error_code |-> error_code,
         error_code |-> error_code]

\* a copy that loses the plunger position
updateSimStateNoPlunger(st) == [st EXCEPT !.plunger_pos = 0]

\* XL3000.updateSimState: the copy of self.state that becomes self.sim_state
updateSimState(st) == st

(***************************************************************************)
(* Frames                                                                  *)
(***************************************************************************)
Top == Head(stack)
Running(proc, pc) ==
    /\ stack # << >>
    /\ exc = NoExc
    /\ Top.proc = proc
    /\ Top.pc = pc
Goto(pc) == [Top EXCEPT !.pc = pc]
Call(callee, pc) == << callee, Goto(pc) >> \o Tail(stack)
Idle == stack = << >> /\ exc = NoExc

\* the frames that run their body inside `with self._syringeErrorHandler()'
HandlerProcs == {"sendRcv", "waitReady", "getCurPort"}

F_sendRcv(cmd_string, execute, role) ==
    [proc |-> "sendRcv", pc |-> "with", role |-> role, last_cmd |-> "",
     cmd |-> IF execute THEN cmd_string \o "R" ELSE cmd_string]
F_init(port) == [proc |-> "init", pc |-> "start", init_port |-> port]
F_waitReady(timeout, polling_interval, delay) ==
    [proc |-> "waitReady", pc |-> "with", last_cmd |-> "", timeout |-> timeout,
     polling_interval |-> polling_interval, delay |-> delay]
F_waitReady_(polling_interval, timeout, delay) ==
    [proc |-> "_waitReady", pc |-> "begin", timeout |-> timeout,
     polling_interval |-> polling_interval, delay |-> delay, start |-> 0]
F_executeChain(wait_ready) ==
    [proc |-> "executeChain", pc |-> "start", wait_ready |-> wait_ready,
     tic |-> 0, exec_time |-> 0]
F_resetChain(on_execute, wait_ready) ==
    [proc |-> "resetChain", pc |-> "start", on_execute |-> on_execute,
     wait_ready |-> wait_ready]
F_get(field, cmd_string) ==
    [proc |-> "get", pc |-> "send", field |-> field, cmd |-> cmd_string]
F_getCurPort ==
    [proc |-> "getCurPort", pc |-> "send", last_cmd |-> ""]
F_haltExec(execute, wait_ready) ==
    [proc |-> "haltExec", pc |-> "send", execute |-> execute,
     wait_ready |-> wait_ready]

\* default keyword arguments of _waitReady / waitReady, in ms
DefaultTimeout == 10000
DefaultPollingInterval == 300

(***************************************************************************)
(* Initial state: the instance after XL3000.__init__ talked to a pump that *)
(* answered every query without error: speeds 1000, plunger at 1000,       *)
(* valve at port 2.  The ready flag is the one of the last response.       *)
(***************************************************************************)
ConstructedFrom(st) ==
    /\ state = st
    /\ sim_state = updateSimState(state)
    /\ sim_speed_change = FALSE
    /\ cmd_chain = ""
    /\ exec_time = 0
    /\ ready \in BOOLEAN
    /\ prev_error_code = 0
    /\ repeat_error = TRUE
    /\ last_cmd = "?6"
    /\ now = Epoch
    /\ stack = << >>
    /\ exc = NoExc
    /\ rv = None
    /\ busy = MaxBusy
    /\ op = [name |-> "none"]
    /\ raised = NoExc
    /\ wire = << >>
    /\ pending = << >>

Constructed ==
    \E m \in BOOLEAN :
        ConstructedFrom([plunger_pos |-> 1000, port |-> 2, microstep |-> m,
                         start_speed |-> 1000, top_speed |-> 1000,
                         cutoff_speed |-> 1000, slope |-> slope])

\* a pump that may fault
Init == Constructed /\ faults = MaxFaults /\ calls = MaxCalls

\* a pump that never faults
InitChain == Constructed /\ faults = 0 /\ calls = MaxChainCalls

(***************************************************************************)
(* One exchange with the pump: com_link.sendRcv and Syringe._checkStatus   *)
(***************************************************************************)
WireEntry(cmd, role, st) ==
    [cmd |-> cmd, role |-> role, err |-> st.error_code,
     toks |-> IF role = "chain" THEN pending ELSE << >>,
     est |-> exec_time, at |-> now]

Exchange(cmd, role, resp, st) ==
    /\ ready' = st.ready
    /\ repeat_error' = st.repeat_error
    /\ prev_error_code' = st.prev_error_code
    /\ faults' = IF st.error_code # 0 \/ resp.data = JunkData
                 THEN faults - 1 ELSE faults
    /\ busy' = IF st.ready THEN busy ELSE busy - 1
    /\ wire' = Append(wire, WireEntry(cmd, role, st))

(***************************************************************************)
(* Syringe.sendRcv, lines 192-201: transmit, decode; return the data or    *)
(* leave the error to the handler around the exchange                      *)
(***************************************************************************)
SendRcvExchange ==
    /\ Running("sendRcv", "with")
    /\ \E resp \in Responses(Top.cmd) :
        \E st \in {checkStatus(resp.status_byte, prev_error_code)} :
          /\ Exchange(Top.cmd, Top.role, resp, st)
          /\ last_cmd' = Top.cmd
          /\ IF st.error_code = 0
             THEN /\ stack' = Tail(stack)
                  /\ rv' = Str(resp.data)
                  /\ exc' = NoExc
             ELSE /\ stack' = << Goto("yield") >> \o Tail(stack)
                  /\ rv' = rv
                  /\ exc' = SyringeError(st.error_code)
    /\ UNCHANGED << state, sim_state, sim_speed_change, cmd_chain, exec_time,
                    now, calls, op, raised, pending >>

(***************************************************************************)
(* XL3000._syringeErrorHandler                                             *)
(***************************************************************************)
Caught ==
    /\ stack # << >>
    /\ exc # NoExc
    /\ Top.proc \in HandlerProcs
    /\ Top.pc = "yield"

\* self.resetChain() with the default arguments: Syringe.resetChain clears
\* the chain, XL3000.resetChain copies the confirmed state
ResetChainDefault ==
    /\ cmd_chain' = ""
    /\ exec_time' = 0
    /\ pending' = << >>
    /\ sim_speed_change' = FALSE
    /\ sim_state' = updateSimState(state)

\* lines 497-502: a recoverable code; reset the chain and call init()
HandlerRecover ==
    /\ Caught
    /\ exc.t = "SyringeError"
    /\ exc.code \in Recoverable
    /\ ResetChainDefault
    /\ stack' = << F_init(init_port), [Top EXCEPT !.pc = "h_init",
                                                  !.last_cmd = last_cmd] >>
                    \o Tail(stack)
    /\ exc' = NoExc
    /\ UNCHANGED << state, ready, prev_error_code, repeat_error, last_cmd,
                    now, rv, envVars, calls, op, raised, wire >>

\* lines 514-518: any other code; reset the chain and re-raise
HandlerReraise ==
    /\ Caught
    /\ exc.t = "SyringeError"
    /\ exc.code \notin Recoverable
    /\ ResetChainDefault
    /\ stack' = Tail(stack)
    /\ UNCHANGED << state, ready, prev_error_code, repeat_error, last_cmd,
                    now, exc, rv, envVars, calls, op, raised, wire >>

\* lines 519-521: any other exception; reset the chain and re-raise
HandlerException ==
    /\ Caught
    /\ exc.t # "SyringeError"
    /\ ResetChainDefault
    /\ stack' = Tail(stack)
    /\ UNCHANGED << state, ready, prev_error_code, repeat_error, last_cmd,
                    now, exc, rv, envVars, calls, op, raised, wire >>

InHandler(pc) ==
    /\ stack # << >>
    /\ Top.proc \in HandlerProcs
    /\ Top.pc = pc

\* lines 503-510: init() returned, or raised a recoverable SyringeError that
\* is passed over; wait for the pump
HandlerAfterInit ==
    /\ InHandler("h_init")
    /\ exc = NoExc \/ (exc.t = "SyringeError" /\ exc.code \in Recoverable)
    /\ stack' = Call(F_waitReady_(DefaultPollingInterval, DefaultTimeout, 0),
                     "h_wait")
    /\ exc' = NoExc
    /\ UNCHANGED << progVars, rv, envVars, histVars >>

\* lines 508-509: init() raised another SyringeError; re-raise
HandlerInitRaise ==
    /\ InHandler("h_init")
    /\ exc.t = "SyringeError"
    /\ exc.code \notin Recoverable
    /\ stack' = Tail(stack)
    /\ UNCHANGED << progVars, exc, rv, envVars, histVars >>

\* line 513: self.sendRcv(last_cmd)
HandlerResend ==
    /\ InHandler("h_wait")
    /\ exc = NoExc
    /\ stack' = Call(F_sendRcv(Top.last_cmd, FALSE, "resend"), "h_resend")
    /\ UNCHANGED << progVars, exc, rv, envVars, histVars >>

\* the handler ends without raising: the exception of the with block is
\* suppressed and the function that holds the block returns None
HandlerDone ==
    /\ InHandler("h_resend")
    /\ exc = NoExc
    /\ stack' = Tail(stack)
    /\ rv' = None
    /\ UNCHANGED << progVars, exc, envVars, histVars >>

(***************************************************************************)
(* An exception nobody catches in the top frame leaves it; at the bottom   *)
(* of the stack it reaches the user.                                       *)
(***************************************************************************)
Catches(f, e) ==
    /\ f.proc \in HandlerProcs
    /\ \/ f.pc = "yield"
       \/ f.pc = "h_init" /\ e.t = "SyringeError"

Propagate ==
    /\ stack # << >>
    /\ exc # NoExc
    /\ ~Catches(Top, exc)
    /\ stack' = Tail(stack)
    /\ UNCHANGED << progVars, exc, rv, envVars, histVars >>

Surface ==
    /\ stack = << >>
    /\ exc # NoExc
    /\ raised' = exc
    /\ exc' = NoExc
    /\ UNCHANGED << progVars, stack, rv, envVars, calls, op, wire, pending >>

(***************************************************************************)
(* XL3000.init                                                             *)
(***************************************************************************)
\* lines 161-177: choose the command and send it
InitSend ==
    /\ Running("init", "start")
    /\ LET force == IF init_force < 0 THEN calcInitForce ELSE init_force
           init_cmd == IF Top.init_port = 1 THEN "Z" ELSE "Y"
       IN  IF Top.init_port = 1 \/ Top.init_port = num_ports
           THEN /\ stack' = Call(F_sendRcv(init_cmd \o ToString(force), TRUE,
                                           "init"), "wait")
                /\ exc' = NoExc
           ELSE /\ stack' = stack
                /\ exc' = PyError("ValueError")
    /\ UNCHANGED << progVars, rv, envVars, histVars >>

\* line 178: self.waitReady()
InitWait ==
    /\ Running("init", "wait")
    /\ stack' = Call(F_waitReady(DefaultTimeout, DefaultPollingInterval, 0),
                     "done")
    /\ UNCHANGED << progVars, exc, rv, envVars, histVars >>

\* line 179: return 0
InitReturn ==
    /\ Running("init", "done")
    /\ stack' = Tail(stack)
    /\ rv' = Num(0)
    /\ UNCHANGED << progVars, exc, envVars, histVars >>

(***************************************************************************)
(* XL3000.waitReady: Syringe._waitReady inside the error handler           *)
(***************************************************************************)
WaitReadyEnter ==
    /\ Running("waitReady", "with")
    /\ stack' = Call(F_waitReady_(Top.polling_interval, Top.timeout,
                                  Top.delay), "yield")
    /\ UNCHANGED << progVars, exc, rv, envVars, histVars >>

WaitReadyReturn ==
    /\ Running("waitReady", "yield")
    /\ stack' = Tail(stack)
    /\ rv' = None
    /\ UNCHANGED << progVars, exc, envVars, histVars >>

(***************************************************************************)
(* Syringe._waitReady and Syringe._checkReady                              *)
(***************************************************************************)
\* lines 132-134: the optional sleep, then start = time.time()
WaitBegin ==
    /\ Running("_waitReady", "begin")
    /\ now' = now + Top.delay
    /\ stack' = << [Top EXCEPT !.pc = "loop", !.start = now'] >> \o Tail(stack)
    /\ UNCHANGED << state, sim_state, sim_speed_change, cmd_chain, exec_time,
                    ready, prev_error_code, repeat_error, last_cmd, exc, rv,
                    envVars, histVars >>

\* line 135: while (start-time.time()) < (start+timeout)
LoopCondition(f) == (f.start - now) < (f.start + f.timeout)

\* lines 135-142 with _checkReady lines 112-113: the loop ends with a
\* SyringeTimeout, or _checkReady answers from the cached flag and
\* _waitReady returns
WaitCached ==
    /\ Running("_waitReady", "loop")
    /\ ~LoopCondition(Top) \/ ready
    /\ IF ~LoopCondition(Top)
       THEN stack' = stack /\ exc' = PyError("SyringeTimeout") /\ rv' = rv
       ELSE stack' = Tail(stack) /\ exc' = NoExc /\ rv' = None
    /\ UNCHANGED << progVars, envVars, histVars >>

\* lines 135-140 with _checkReady lines 114-121: poll with 'Q'.  An error
\* that repeats the previous code is passed over and the flag just decoded
\* is the answer; another error is raised.
WaitPoll ==
    /\ Running("_waitReady", "loop")
    /\ LoopCondition(Top)
    /\ ~ready
    /\ \E resp \in Responses("Q") :
        \E st \in {checkStatus(resp.status_byte, prev_error_code)} :
          /\ Exchange("Q", "poll", resp, st)
          /\ IF st.error_code # 0 /\ ~st.repeat_error
             THEN /\ exc' = SyringeError(st.error_code)
                  /\ UNCHANGED << stack, rv, now >>
             ELSE IF st.ready
             THEN /\ stack' = Tail(stack)
                  /\ rv' = None
                  /\ UNCHANGED << exc, now >>
             ELSE /\ now' = now + Top.polling_interval
                  /\ UNCHANGED << stack, exc, rv >>
    /\ UNCHANGED << state, sim_state, sim_speed_change, cmd_chain, exec_time,
                    last_cmd, calls, op, raised, pending >>

(***************************************************************************)
(* Syringe.executeChain                                                    *)
(***************************************************************************)
\* lines 212-213
ExecSend ==
    /\ Running("executeChain", "start")
    /\ stack' = << F_sendRcv(cmd_chain, TRUE, "chain"),
                   [Top EXCEPT !.pc = "sent", !.tic = now] >> \o Tail(stack)
    /\ UNCHANGED << progVars, exc, rv, envVars, histVars >>

\* lines 214-215
ExecReset ==
    /\ Running("executeChain", "sent")
    /\ stack' = << F_resetChain(TRUE, Top.wait_ready),
                   [Top EXCEPT !.pc = "reset", !.exec_time = exec_time] >>
                    \o Tail(stack)
    /\ UNCHANGED << progVars, exc, rv, envVars, histVars >>

\* lines 216-223
ExtraWaitTime(f) ==
    IF f.wait_ready THEN 0
    ELSE IF f.exec_time - (now - f.tic) < 0 THEN 0
    ELSE f.exec_time - (now - f.tic)

ExecReturn ==
    /\ Running("executeChain", "reset")
    /\ stack' = Tail(stack)
    /\ rv' = Num(ExtraWaitTime(Top))
    /\ UNCHANGED << progVars, exc, envVars, histVars >>

(***************************************************************************)
(* XL3000.resetChain over Syringe.resetChain                               *)
(***************************************************************************)
\* syringe.py lines 239-240
ResetWait ==
    /\ Running("resetChain", "start")
    /\ stack' = IF Top.wait_ready
                THEN Call(F_waitReady_(DefaultPollingInterval, DefaultTimeout,
                                       exec_time), "clear")
                ELSE << Goto("clear") >> \o Tail(stack)
    /\ UNCHANGED << progVars, exc, rv, envVars, histVars >>

\* syringe.py lines 242-243, XL3000.py lines 140-142
ResetClear ==
    /\ Running("resetChain", "clear")
    /\ cmd_chain' = ""
    /\ exec_time' = 0
    /\ pending' = << >>
    /\ IF Top.on_execute /\ sim_speed_change
       THEN /\ state' = [state EXCEPT !.slope = sim_state.slope,
                                      !.microstep = sim_state.microstep]
            /\ stack' = << Goto("q1") >> \o Tail(stack)
       ELSE /\ state' = state
            /\ stack' = << Goto("fin") >> \o Tail(stack)
    /\ UNCHANGED << sim_state, sim_speed_change, ready, prev_error_code,
                    repeat_error, last_cmd, now, exc, rv, envVars, calls, op,
                    raised, wire >>

\* XL3000.py lines 143-145: updateSpeeds(), getCurPort(), getPlungerPos()
ResetQueries ==
    << [pc |-> "q1", next |-> "q2", f |-> F_get("start_speed", "?1")],
       [pc |-> "q2", next |-> "q3", f |-> F_get("top_speed", "?2")],
       [pc |-> "q3", next |-> "q4", f |-> F_get("cutoff_speed", "?3")],
       [pc |-> "q4", next |-> "q5", f |-> F_getCurPort],
       [pc |-> "q5", next |-> "fin", f |-> F_get("plunger_pos", "?")] >>

ResetQuery ==
    /\ stack # << >>
    /\ exc = NoExc
    /\ Top.proc = "resetChain"
    /\ \E i \in DOMAIN ResetQueries :
          /\ Top.pc = ResetQueries[i].pc
          /\ stack' = Call(ResetQueries[i].f, ResetQueries[i].next)
    /\ UNCHANGED << progVars, exc, rv, envVars, histVars >>

\* XL3000.py lines 146-147
ResetFinish ==
    /\ Running("resetChain", "fin")
    /\ sim_speed_change' = FALSE
    /\ sim_state' = updateSimState(state)
    /\ stack' = Tail(stack)
    /\ rv' = None
    /\ UNCHANGED << state, cmd_chain, exec_time, ready, prev_error_code,
                    repeat_error, last_cmd, now, exc, envVars, histVars >>

(***************************************************************************)
(* Report commands                                                         *)
(***************************************************************************)
\* getPlungerPos, getStartSpeed, getTopSpeed, getCutoffSpeed, getEncoderPos:
\* data = self.sendRcv(cmd_string)
GetSend ==
    /\ Running("get", "send")
    /\ stack' = Call(F_sendRcv(Top.cmd, FALSE, "call"), "parse")
    /\ UNCHANGED << progVars, exc, rv, envVars, histVars >>

\* self.state[field] = int(data); getEncoderPos only returns int(data)
GetParse ==
    /\ Running("get", "parse")
    /\ IF rv.t = "None"
       THEN /\ exc' = PyError("TypeError")
            /\ UNCHANGED << state, stack, rv >>
       ELSE IF ~IsDecimal(rv.s)
       THEN /\ exc' = PyError("ValueError")
            /\ UNCHANGED << state, stack, rv >>
       ELSE /\ state' = IF Top.field = "encoder" THEN state
                        ELSE [state EXCEPT ![Top.field] = ParseInt(rv.s)]
            /\ stack' = Tail(stack)
            /\ rv' = Num(ParseInt(rv.s))
            /\ exc' = NoExc
    /\ UNCHANGED << sim_state, sim_speed_change, cmd_chain, exec_time, ready,
                    prev_error_code, repeat_error, last_cmd, now, envVars,
                    histVars >>

\* XL3000.getCurPort, lines 303-304
GetCurPortSend ==
    /\ Running("getCurPort", "send")
    /\ stack' = Call(F_sendRcv("?6", FALSE, "call"), "parse")
    /\ UNCHANGED << progVars, exc, rv, envVars, histVars >>

\* XL3000.getCurPort, lines 305-311: int(data) inside the error handler; a
\* payload that is no number raises SyringeError(7)
GetCurPortParse ==
    /\ Running("getCurPort", "parse")
    /\ IF rv.t = "None"
       THEN /\ exc' = PyError("TypeError")
            /\ stack' = << Goto("yield") >> \o Tail(stack)
            /\ UNCHANGED << state, rv >>
       ELSE IF ~IsDecimal(rv.s)
       THEN /\ exc' = SyringeError(7)
            /\ stack' = << Goto("yield") >> \o Tail(stack)
            /\ UNCHANGED << state, rv >>
       ELSE /\ state' = [state EXCEPT !.port = ParseInt(rv.s)]
            /\ stack' = Tail(stack)
            /\ rv' = Num(ParseInt(rv.s))
            /\ exc' = NoExc
    /\ UNCHANGED << sim_state, sim_speed_change, cmd_chain, exec_time, ready,
                    prev_error_code, repeat_error, last_cmd, now, envVars,
                    histVars >>

(***************************************************************************)
(* XL3000.haltExec under execWrap: the body sends 'H' at once; the wrapper *)
(* then executes the chain when execute=True                               *)
(***************************************************************************)
HaltSend ==
    /\ Running("haltExec", "send")
    /\ stack' = Call(F_sendRcv("H", FALSE, "call"), "sent")
    /\ UNCHANGED << progVars, exc, rv, envVars, histVars >>

HaltWrap ==
    /\ Running("haltExec", "sent")
    /\ IF Top.execute
       THEN stack' = << F_executeChain(Top.wait_ready) >> \o Tail(stack)
            /\ rv' = rv
       ELSE stack' = Tail(stack) /\ rv' = None
    /\ UNCHANGED << progVars, exc, envVars, histVars >>

(***************************************************************************)
(* Public calls.  The user calls when the previous call has ended.         *)
(***************************************************************************)
\* arguments the user passes
SpeedCodeArgs == {0 - 1, 14, 41}
PulseArgs == {500}
SlopeArgs == {0, 5, 21}
PortArgs ==
    { << 0, "None" >>, << 6, "None" >>, << 6, "True" >>, << 6, "False" >>,
      << num_ports + 1, "None" >> }
AbsArgs == {0 - 1, 500, 3001, 24001}
RelArgs == {0 - 100, 100}
RepeatArgs == {0, 3, 30000}
DelayArgs == {0, 250, 30000}
InitPortArgs == {1, 2, num_ports}
TimeoutArgs == {DefaultPollingInterval, DefaultTimeout}
\* execute and wait_ready keyword arguments of a chainable call
ExecModes ==
    { [execute |-> FALSE, wait_ready |-> FALSE],
      [execute |-> TRUE, wait_ready |-> FALSE],
      [execute |-> TRUE, wait_ready |-> TRUE] }

CallRecord(name, a, s, m) ==
    [name |-> name, a |-> a, s |-> s, execute |-> m.execute,
     wait_ready |-> m.wait_ready]
NoMode == [execute |-> FALSE, wait_ready |-> FALSE]

BeginCall(name, a, s, m) ==
    /\ Idle
    /\ calls > 0
    /\ calls' = calls - 1
    /\ op' = CallRecord(name, a, s, m)
    /\ wire' = << >>
    /\ now' = Epoch

\* a call that only pushes its frame (the caller names the frame)
Enter(name, a, s, m) ==
    /\ BeginCall(name, a, s, m)
    /\ raised' = NoExc
    /\ UNCHANGED << state, sim_state, sim_speed_change, cmd_chain, exec_time,
                    ready, prev_error_code, repeat_error, last_cmd, exc, rv,
                    envVars, pending >>

\* a wrapper that commits the simulated state as soon as a call is queued
addAndExecCommitting(name, a, s, m, b) ==
    /\ BeginCall(name, a, s, m)
    /\ sim_state' = b.sim
    /\ state' = b.sim
    /\ cmd_chain' = b.chain
    /\ exec_time' = b.time
    /\ sim_speed_change' = b.change
    /\ pending' = b.toks
    /\ raised' = b.exc
    /\ stack' = IF b.exc = NoExc /\ m.execute
                THEN << F_executeChain(m.wait_ready) >>
                ELSE << >>
    /\ rv' = None
    /\ UNCHANGED << ready, prev_error_code, repeat_error, last_cmd,
                    exc, envVars >>

\* execWrap.addAndExec: run the wrapped function; when it returns and
\* execute is set, call executeChain(wait_ready)
addAndExec(name, a, s, m, b) ==
    /\ BeginCall(name, a, s, m)
    /\ sim_state' = b.sim
    /\ cmd_chain' = b.chain
    /\ exec_time' = b.time
    /\ sim_speed_change' = b.change
    /\ pending' = b.toks
    /\ raised' = b.exc
    /\ stack' = IF b.exc = NoExc /\ m.execute
                THEN << F_executeChain(m.wait_ready) >>
                ELSE << >>
    /\ rv' = None
    /\ UNCHANGED << state, ready, prev_error_code, repeat_error, last_cmd,
                    exc, envVars >>

SetSpeed ==
    \E a \in SpeedCodeArgs, m \in ExecModes :
        addAndExec("setSpeed", a, "", m, setSpeed(Builder, a))
SetStartSpeed ==
    \E a \in PulseArgs, m \in ExecModes :
        addAndExec("setStartSpeed", a, "", m, setStartSpeed(Builder, a))
SetTopSpeed ==
    \E a \in PulseArgs, m \in ExecModes :
        addAndExec("setTopSpeed", a, "", m, setTopSpeed(Builder, a))
SetCutoffSpeed ==
    \E a \in PulseArgs, m \in ExecModes :
        addAndExec("setCutoffSpeed", a, "", m, setCutoffSpeed(Builder, a))
SetSlope ==
    \E a \in SlopeArgs, m \in ExecModes :
        addAndExec("setSlope", a, "", m, setSlope(Builder, a))
ChangePort ==
    \E a \in PortArgs, m \in ExecModes :
        addAndExec("changePort", a[1], a[2], m,
                   changePort(Builder, a[1], a[2]))
MovePlungerAbs ==
    \E a \in AbsArgs, m \in ExecModes :
        addAndExec("movePlungerAbs", a, "", m, movePlungerAbs(Builder, a))
MovePlungerRel ==
    \E a \in RelArgs, m \in ExecModes :
        addAndExec("movePlungerRel", a, "", m, movePlungerRel(Builder, a))
RepeatCmdSeq ==
    \E a \in RepeatArgs, m \in ExecModes :
        addAndExec("repeatCmdSeq", a, "", m, repeatCmdSeq(Builder, a))
MarkRepeatStart ==
    \E m \in ExecModes :
        addAndExec("markRepeatStart", 0, "", m, markRepeatStart(Builder))
DelayExec ==
    \E a \in DelayArgs, m \in ExecModes :
        addAndExec("delayExec", a, "", m, delayExec(Builder, a))
HaltExec ==
    \E m \in ExecModes :
        /\ Enter("haltExec", 0, "", m)
        /\ stack' = << F_haltExec(m.execute, m.wait_ready) >>

ExecuteChain ==
    \E w \in BOOLEAN :
        /\ Enter("executeChain", 0, "", [execute |-> TRUE, wait_ready |-> w])
        /\ stack' = << F_executeChain(w) >>
ResetChain ==
    \E e \in BOOLEAN, w \in BOOLEAN :
        /\ Enter("resetChain", 0, "", [execute |-> e, wait_ready |-> w])
        /\ stack' = << F_resetChain(e, w) >>
InitPump ==
    \E p \in InitPortArgs :
        /\ Enter("init", p, "", NoMode)
        /\ stack' = << F_init(p) >>
WaitReady ==
    \E t \in TimeoutArgs :
        /\ Enter("waitReady", t, "", NoMode)
        /\ stack' = << F_waitReady(t, DefaultPollingInterval, 0) >>
\* getPlungerPos, getStartSpeed, getTopSpeed, getCutoffSpeed, getEncoderPos
Queries ==
    { F_get("plunger_pos", "?"), F_get("start_speed", "?1"),
      F_get("top_speed", "?2"), F_get("cutoff_speed", "?3"),
      F_get("encoder", "?4") }
Query ==
    \E f \in Queries :
        /\ Enter("get", 0, f.field, NoMode)
        /\ stack' = << F_get(f.field, f.cmd) >>
GetCurPort ==
    /\ Enter("getCurPort", 0, "", NoMode)
    /\ stack' = << F_getCurPort >>
\* XL3000.terminateCmd
TerminateCmd ==
    /\ Enter("terminateCmd", 0, "", NoMode)
    /\ stack' = << F_sendRcv("T", TRUE, "call") >>

UserCall ==
    \/ SetSpeed \/ SetStartSpeed \/ SetTopSpeed \/ SetCutoffSpeed \/ SetSlope
    \/ ChangePort \/ MovePlungerAbs \/ MovePlungerRel \/ RepeatCmdSeq
    \/ MarkRepeatStart \/ DelayExec \/ HaltExec \/ ExecuteChain \/ ResetChain
    \/ InitPump \/ WaitReady \/ Query \/ GetCurPort \/ TerminateCmd

\* the steps of XL3000._syringeErrorHandler after an exception
Handle ==
    \/ HandlerRecover \/ HandlerReraise \/ HandlerException
    \/ HandlerAfterInit \/ HandlerInitRaise \/ HandlerResend \/ HandlerDone

Step ==
    \/ SendRcvExchange
    \/ Propagate \/ Surface
    \/ InitSend \/ InitWait \/ InitReturn
    \/ WaitReadyEnter \/ WaitReadyReturn \/ WaitBegin \/ WaitCached \/ WaitPoll
    \/ ExecSend \/ ExecReset \/ ExecReturn
    \/ ResetWait \/ ResetClear \/ ResetQuery \/ ResetFinish
    \/ GetSend \/ GetParse \/ GetCurPortSend \/ GetCurPortParse
    \/ HaltSend \/ HaltWrap

\* the public calls that transmit, with two of the chainable ones
IoCall ==
    \/ SetSpeed \/ MovePlungerAbs \/ HaltExec \/ ExecuteChain \/ ResetChain
    \/ InitPump \/ WaitReady \/ Query \/ GetCurPort \/ TerminateCmd

Next == IoCall \/ Step \/ Handle
NextChain == UserCall \/ Step

(***************************************************************************)
(* Functions of the driver applied on their own to every input of a        *)
(* bounded set.  `op' names the function and its arguments (and, for the   *)
(* valve, the two distances computed), `rv' and `raised' how it ended.     *)
(***************************************************************************)
\* XL3000.changePort, lines 346-367, on a valve of n ports with no
\* direction forced: the distances, the direction and the delta chosen
ChoosePortDirection ==
    /\ Idle
    /\ calls > 0
    /\ calls' = calls - 1
    /\ \E n \in 1 .. MaxPorts :
        \E from_port \in 1 .. n, to_port \in 1 .. n :
          LET d == PortDeltasFor(n, from_port, to_port)
              cw == ChooseClockwise("None", d)
          IN  /\ op' = [name |-> "changePort.delta", n |-> n,
                        from_port |-> from_port, to_port |-> to_port,
                        cw_delta |-> d.cw, ccw_delta |-> d.ccw]
              /\ rv' = [t |-> "delta", s |-> IF cw THEN "I" ELSE "O",
                        n |-> IF cw THEN d.cw ELSE d.ccw]
    /\ raised' = NoExc
    /\ UNCHANGED << progVars, stack, exc, envVars, wire, pending >>

\* Syringe._checkStatus on any string of 8 bits
StatusBytes == [1 .. 8 -> {0, 1}]

DecodeStatus ==
    /\ Idle
    /\ calls > 0
    /\ calls' = calls - 1
    /\ \E status_byte \in StatusBytes :
        LET st == checkStatus(status_byte, prev_error_code)
        IN  /\ op' = [name |-> "_checkStatus", status_byte |-> status_byte]
            /\ ready' = st.ready
            /\ repeat_error' = st.repeat_error
            /\ prev_error_code' = st.prev_error_code
            /\ raised' = IF st.error_code # 0
                         THEN SyringeError(st.error_code) ELSE NoExc
            /\ rv' = IF st.error_code # 0 THEN None
                     ELSE [t |-> "status", s |-> "",
                           n |-> StatusReady(status_byte)]
    /\ UNCHANGED << state, sim_state, sim_speed_change, cmd_chain, exec_time,
                    last_cmd, now, stack, exc, envVars, wire, pending >>

(***************************************************************************)
(* setSpeed and movePlungerAbs queued (execute=False) on an instance that  *)
(* was constructed with another slope argument and whose pump reported     *)
(* other speeds, the plunger at 0.                                         *)
(***************************************************************************)
Profile(v0, vt, vc, c) ==
    [start_speed |-> v0, top_speed |-> vt, cutoff_speed |-> vc, slope |-> c]
SimProfiles ==
    { Profile(1000, 1000, 1000, 14), Profile(500, 500, 500, 20),
      Profile(900, 1400, 900, 14), Profile(50, 6000, 2700, 14),
      Profile(50, 6000, 2700, 1), Profile(1000, 6000, 6500, 14) }
AllSpeedCodeArgs == (0 - 1) .. 41
StepArgs == {0, 1, 10, 100, 500, 1000, 2000, 3000, 5830}

InitSim ==
    /\ \E pr \in SimProfiles, m \in BOOLEAN :
          ConstructedFrom([plunger_pos |-> 0, port |-> 2, microstep |-> m,
                           start_speed |-> pr.start_speed,
                           top_speed |-> pr.top_speed,
                           cutoff_speed |-> pr.cutoff_speed,
                           slope |-> pr.slope])
    /\ faults = 0
    /\ calls = MaxCalls

QueueSetSpeed ==
    \E a \in AllSpeedCodeArgs :
        addAndExec("setSpeed", a, "", NoMode, setSpeed(Builder, a))
QueueMovePlungerAbs ==
    \E a \in StepArgs :
        addAndExec("movePlungerAbs", a, "", NoMode, movePlungerAbs(Builder, a))

NextSim == QueueSetSpeed \/ QueueMovePlungerAbs
\* speed codes and plunger moves queued from a range of speed profiles
SpecSim == InitSim /\ [][NextSim]_vars

(***************************************************************************)
(* Chains built by calls that do not execute                               *)
(***************************************************************************)
InitQueue == Constructed /\ faults = 0 /\ calls = MaxQueueCalls

\* a chain-building call with execute=False
QueueCall ==
    /\ \/ SetSpeed \/ SetStartSpeed \/ SetTopSpeed \/ SetCutoffSpeed
       \/ SetSlope \/ ChangePort \/ MovePlungerAbs \/ MovePlungerRel
       \/ RepeatCmdSeq \/ MarkRepeatStart \/ DelayExec
    /\ ~op'.execute

\* chains of up to MaxQueueCalls chain-building calls, nothing executed
SpecQueue == InitQueue /\ [][QueueCall]_vars

(***************************************************************************)
(* changePort queued (execute=False) with every target port and direction  *)
(***************************************************************************)
InitValve == Constructed /\ faults = 0 /\ calls = MaxValveCalls

AllPortArgs == (0 .. num_ports + 1) \X {"None", "True", "False"}

QueueChangePort ==
    \E a \in AllPortArgs :
        addAndExec("changePort", a[1], a[2], NoMode,
                   changePort(Builder, a[1], a[2]))

\* valve moves queued one after another
SpecValve == InitValve /\ [][QueueChangePort]_vars

InitPure == Constructed /\ faults = 0 /\ calls = MaxCalls
NextPure == ChoosePortDirection \/ DecodeStatus
\* the valve's direction choice and the status decoder on their own
SpecPure == InitPure /\ [][NextPure]_vars

(***************************************************************************)
(* init, waitReady and terminateCmd called in a row on an instance whose   *)
(* pump may fault: the status of one call's last response is the previous  *)
(* status of the next call's first.                                        *)
(***************************************************************************)
InitPoll == Constructed /\ faults = MaxFaults /\ calls = MaxPollCalls

PollCall == InitPump \/ WaitReady \/ TerminateCmd

PollStep ==
    \/ SendRcvExchange
    \/ Propagate \/ Surface
    \/ InitSend \/ InitWait \/ InitReturn
    \/ WaitReadyEnter \/ WaitReadyReturn \/ WaitBegin \/ WaitCached \/ WaitPoll

PollHandle ==
    \/ HandlerRecover \/ HandlerReraise
    \/ HandlerAfterInit \/ HandlerInitRaise \/ HandlerResend \/ HandlerDone

NextPoll == PollCall \/ PollStep \/ PollHandle
\* sequences of init, waitReady and terminateCmd, a pump that may fault
SpecPoll == InitPoll /\ [][NextPoll]_vars

\* any public call, a pump that may fault
Spec == Init /\ [][Next]_vars
\* sequences of public calls, a pump that never faults
SpecChain == InitChain /\ [][NextChain]_vars

(***************************************************************************)
(* Properties.  `wire' lists the exchanges of the running public call in   *)
(* the order of transmission; an entry names the command, who sent it      *)
(* (role), the error code of the response, and the estimated time (est)    *)
(* and the clock (at) when it was transmitted.                             *)
(***************************************************************************)
\* the recoverable codes as the documentation lists them
DocumentedRecoverable == {7, 9, 10}

WireIndex == 1 .. Len(wire)
SentAs(role) == {k \in WireIndex : wire[k].role = role}
\* exchanges made by sendRcv (all but the ready polls)
SendRoles == {"call", "chain", "init", "resend"}
Fatal(k) ==
    /\ wire[k].role \in SendRoles
    /\ wire[k].err # 0
    /\ wire[k].err \notin DocumentedRecoverable
\* the public call has ended; Returned: without raising
Ended == Idle /\ op.name # "none"
Returned == Ended /\ raised = NoExc

RECURSIVE Join(_)
Join(toks) == IF toks = << >> THEN "" ELSE Head(toks) \o Join(Tail(toks))

\* C1: when the response to an executed chain carries code 9, one init
\* command is transmitted and the chain is resent once; a code 9 on the
\* resend starts no second cycle.  (Stated for the calls in which only the
\* chain and its resends are answered with an error.)
C1_OneRecoveryCycle ==
    ( /\ \E k \in SentAs("chain") : wire[k].err = 9
      /\ \A k \in WireIndex :
            wire[k].err # 0 => /\ wire[k].role \in {"chain", "resend"}
                               /\ wire[k].err = 9 )
        => /\ Cardinality(SentAs("init")) <= 1
           /\ Cardinality(SentAs("resend")) <= 1

\* C2: when the init command sent during recovery is itself answered with a
\* recoverable code, no init command is transmitted again before the failed
\* command is resent: one original error costs at most one init.
C2_InitAttemptedOnce ==
    \A k \in SentAs("call") \cup SentAs("chain") :
        wire[k].err \in DocumentedRecoverable
            => Cardinality({j \in SentAs("init") :
                              /\ j > k
                              /\ \A m \in k + 1 .. j : wire[m].role # "resend"})
                 <= 1

\* C3: a non-zero code outside {7, 9, 10} in the response to a command sent
\* by sendRcv, the init command of a recovery included, is the last exchange
\* of the call (no init, no resend afterwards); the call ends raising a
\* SyringeError with that code, the chain empty and the estimated time 0.
C3_NonRecoverablePropagates ==
    \A k \in WireIndex :
        Fatal(k) => /\ k = Len(wire)
                    /\ Ended => /\ raised = SyringeError(wire[k].err)
                                /\ cmd_chain = ""
                                /\ exec_time = 0

\* C3 witness: a call other than init() ended on the code 2 that answered
\* the init command of its recovery
C3_Witness ==
    /\ Ended
    /\ op.name # "init"
    /\ Len(wire) >= 2
    /\ wire[Len(wire)].role = "init"
    /\ wire[Len(wire)].err = 2
    /\ wire[1].err = 9
    /\ raised = SyringeError(2)

\* C4: _waitReady transmits no poll once `timeout' has elapsed since the
\* polling began.
C4_PollingStopsAtTimeout ==
    [][ (Running("_waitReady", "loop") /\ Len(wire') > Len(wire))
            => now - Top.start < Top.timeout ]_vars

\* C5: a call that ends raising a SyringeError leaves the chain reset:
\* chain empty, estimated time 0, simulated state equal to the confirmed one.
C5_ErrorFindsChainReset ==
    (Ended /\ raised.t = "SyringeError")
        => /\ cmd_chain = ""
           /\ exec_time = 0
           /\ sim_state = state

\* C6: when resetChain has returned (called by the user with either value
\* of on_execute, or by executeChain) the simulated state equals the
\* confirmed state field by field, the chain is empty and the time is 0.
ResetChainReturned ==
    \/ Returned /\ op.name = "resetChain"
    \/ Running("executeChain", "reset")
C6_ResetSynchronizes ==
    ResetChainReturned
        => /\ DOMAIN sim_state = DOMAIN state
           /\ \A f \in {"port", "plunger_pos", "start_speed", "top_speed",
                        "cutoff_speed", "slope", "microstep"} :
                  sim_state[f] = state[f]
           /\ cmd_chain = ""
           /\ exec_time = 0

\* C6 witness: resetChain(on_execute=True) returned after a pending speed
\* change made it query the pump (the start speed read back is 2), as the
\* second call of the run
C6_Witness ==
    /\ Returned
    /\ op.name = "resetChain"
    /\ op.execute
    /\ state.start_speed = 2
    /\ pending = << >>
    /\ calls < MaxChainCalls - 1

\* C7: the argument of the chain-building call is outside the documented
\* range
OutOfRange(o, sd) ==
    \/ o.name = "setSpeed" /\ o.a \notin 0 .. 40
    \/ o.name = "setSlope" /\ o.a \notin 1 .. 20
    \/ o.name = "movePlungerAbs"
         /\ o.a \notin (IF sd.microstep THEN 0 .. 24000 ELSE 0 .. 3000)
    \/ o.name = "changePort" /\ o.a \notin 1 .. num_ports
    \/ o.name = "repeatCmdSeq" /\ o.a \notin 1 .. 29999
    \/ o.name = "delayExec" /\ o.a \notin 1 .. 29999

\* C7: a chain-building call with an out-of-range argument fails at the
\* call, leaves chain, estimated time and simulated state as they were and
\* transmits nothing, whatever execute is.
C7_InvalidArgumentLeavesChain ==
    [][ (calls' < calls /\ OutOfRange(op', sim_state))
            => /\ raised' # NoExc
               /\ cmd_chain' = cmd_chain
               /\ exec_time' = exec_time
               /\ sim_state' = sim_state
               /\ stack' = << >>
               /\ wire' = << >> ]_vars

\* C7 witness: movePlungerAbs(3001, execute=True) in standard mode failed
\* while a chain was pending
C7_Witness ==
    /\ Ended
    /\ op.name = "movePlungerAbs"
    /\ op.a = 3001
    /\ op.execute
    /\ ~sim_state.microstep
    /\ raised # NoExc
    /\ cmd_chain # ""
    /\ wire = << >>

\* calls that end by executing the chain
ExecutingCall ==
    /\ op.name \in {"setSpeed", "setStartSpeed", "setTopSpeed",
                    "setCutoffSpeed", "setSlope", "changePort",
                    "movePlungerAbs", "movePlungerRel", "markRepeatStart",
                    "repeatCmdSeq", "delayExec", "executeChain", "haltExec"}
    /\ op.execute

\* C8: the chain is transmitted as one command string: the tokens appended
\* since the last reset, in call order, then 'R'; a call that executed the
\* chain and returned transmitted it once and left the chain empty and the
\* estimated time 0.
C8_ChainTransmittedInOrder ==
    /\ \A k \in SentAs("chain") : wire[k].cmd = Join(wire[k].toks) \o "R"
    /\ (Returned /\ ExecutingCall)
          => /\ Cardinality(SentAs("chain")) = 1
             /\ cmd_chain = ""
             /\ exec_time = 0

\* C8 witness: a chain of two different tokens from two calls was executed
C8_Witness ==
    /\ Returned
    /\ ExecutingCall
    /\ \E k \in SentAs("chain") :
          /\ Len(wire[k].toks) = 2
          /\ wire[k].toks[1] # wire[k].toks[2]

\* C9: a getter whose query was first answered with a recoverable code and
\* then, after init and resend, without error returns the number read.
C9_RecoveredQueryReturnsPayload ==
    ( /\ Ended
      /\ op.name = "get"
      /\ Len(wire) >= 2
      /\ wire[1].err \in DocumentedRecoverable
      /\ wire[Len(wire)].role = "resend"
      /\ \A k \in 2 .. Len(wire) : wire[k].err = 0 )
        => /\ raised = NoExc
           /\ rv.t = "num"

\* C10: waitReady returns normally only when the most recent status
\* response had the ready flag set.
C10_WaitReadyReturnsReady ==
    (Returned /\ op.name = "waitReady") => ready

\* C11: with no direction forced, on a valve of N ports and for from, to in
\* 1..N, changePort computes cw = (to - from) mod N and ccw = N - cw, turns
\* clockwise exactly when cw <= ccw, and the delta chosen is at most N/2
\* while the other direction's is N minus it.
C11_ShortestRotation ==
    op.name = "changePort.delta"
        => LET cw == (op.to_port - op.from_port) % op.n
               ccw == op.n - cw
           IN  /\ op.cw_delta = cw
               /\ op.ccw_delta = ccw
               /\ (rv.s = "I") <=> (cw <= ccw)
               /\ rv.s \in {"I", "O"}
               /\ rv.n = IF rv.s = "I" THEN cw ELSE ccw
               /\ 2 * rv.n <= op.n
               /\ (IF rv.s = "I" THEN ccw ELSE cw) = op.n - rv.n

\* C11 witness: a tie on a valve of 8 ports (from 6 to 2) went clockwise
C11_Witness ==
    /\ op.name = "changePort.delta"
    /\ op.n = 8
    /\ op.from_port = 6
    /\ op.to_port = 2
    /\ rv.s = "I"
    /\ rv.n = 4

Min(a, b) == IF a <= b THEN a ELSE b

\* C12: a setSpeed(code) that succeeds sets the simulated top speed to the
\* table value of the code and the simulated start and cutoff speeds to the
\* minimum of their previous value and that top speed, so neither exceeds
\* the top speed.
C12_SetSpeedClamps ==
    [][ (calls' < calls /\ op'.name = "setSpeed" /\ raised' = NoExc)
            => /\ op'.a \in DOMAIN SPEED_CODES
               /\ sim_state'.top_speed = SPEED_CODES[op'.a]
               /\ sim_state'.start_speed =
                      Min(sim_state.start_speed, SPEED_CODES[op'.a])
               /\ sim_state'.cutoff_speed =
                      Min(sim_state.cutoff_speed, SPEED_CODES[op'.a])
               /\ sim_state'.start_speed <= sim_state'.top_speed
               /\ sim_state'.cutoff_speed <= sim_state'.top_speed ]_vars

\* C12 witness: setSpeed(0) was queued when the cutoff speed was 6500; the
\* simulated cutoff speed is now 6000
C12_Witness ==
    /\ Ended
    /\ op.name = "setSpeed"
    /\ op.a = 0
    /\ raised = NoExc
    /\ state.cutoff_speed = 6500
    /\ sim_state.top_speed = 6000
    /\ sim_state.cutoff_speed = 6000
    /\ sim_state.start_speed = 1000

\* C13: the speed-code table is total and never increases on the codes
\* setSpeed accepts: every setSpeed(code) with code in 0..40 succeeds, code 0
\* gives the top speed 6000 and code 40 gives 10, and the top speed it gives
\* is at least the table value of every larger code.
C13_SpeedTableTotalMonotone ==
    (Ended /\ op.name = "setSpeed" /\ op.a \in 0 .. 40)
        => /\ raised = NoExc
           /\ op.a = 0 => sim_state.top_speed = 6000
           /\ op.a = 40 => sim_state.top_speed = 10
           /\ \A b \in DOMAIN SPEED_CODES :
                  op.a < b => sim_state.top_speed >= SPEED_CODES[b]

\* C14: in a chain of delays of 250 ms with one repeat mark, closed by the
\* repeat count 3, the delays queued before the mark count once and the
\* delays queued after it three times.
C14_RepeatMultipliesAfterMark ==
    \A i \in 1 .. Len(pending) - 1 :
        ( /\ pending[Len(pending)] = "G3"
          /\ pending[i] = "g"
          /\ \A j \in (1 .. Len(pending) - 1) \ {i} : pending[j] = "M250" )
            => exec_time = 250 * (i - 1) + 3 * 250 * (Len(pending) - 1 - i)

\* C15: for every string of 8 bits the decoder takes the ready flag from
\* index 2 and the error code from indices 4..7 as a 4-bit unsigned number
\* (indices counted from 0); it returns normally, with the flag, exactly
\* when the code is 0 and otherwise raises a SyringeError with the code;
\* the codes the handler retries are exactly 7, 9 and 10.
C15_StatusDecoding ==
    op.name = "_checkStatus"
        => LET sb == op.status_byte
               flag == sb[2 + 1]
               code == 8 * sb[4 + 1] + 4 * sb[5 + 1] + 2 * sb[6 + 1] + sb[7 + 1]
           IN  /\ ready <=> (flag = 1)
               /\ prev_error_code = code
               /\ (raised = NoExc) <=> (code = 0)
               /\ code = 0 => (rv.t = "status" /\ rv.n = flag)
               /\ code # 0 => raised = SyringeError(code)
               /\ (code \in Recoverable) <=> (code \in {7, 9, 10})

\* C15 witness: a status with the flag cleared and the code 9 was decoded
C15_Witness ==
    /\ op.name = "_checkStatus"
    /\ op.status_byte = << 0, 1, 0, 0, 1, 0, 0, 1 >>
    /\ raised = SyringeError(9)
    /\ ~ready

\* C16: after changePort(p) or movePlungerAbs(x) was executed and returned
\* normally, the confirmed and the simulated state both hold port p, or
\* plunger position x.  (Stated for the calls that read nothing back from
\* the pump, so that the pump's answers play no part.)
C16_ExecutedMoveIsConfirmed ==
    ( /\ Returned
      /\ op.execute
      /\ \A k \in WireIndex : ~IsQuery(wire[k].cmd) )
        => /\ op.name = "changePort"
                => (state.port = op.a /\ sim_state.port = op.a)
           /\ op.name = "movePlungerAbs"
                => (state.plunger_pos = op.a /\ sim_state.plunger_pos = op.a)

Chainable ==
    {"setSpeed", "setStartSpeed", "setTopSpeed", "setCutoffSpeed", "setSlope",
     "changePort", "movePlungerAbs", "movePlungerRel", "markRepeatStart",
     "repeatCmdSeq", "delayExec", "haltExec"}

\* C17: a chainable operation called without execute that returns has
\* transmitted nothing and has left its token in the pending chain.
C17_QueueingTransmitsNothing ==
    (Returned /\ op.name \in Chainable /\ ~op.execute)
        => /\ wire = << >>
           /\ pending # << >>
           /\ cmd_chain = Join(pending)

\* C18: a speed-affecting operation that was queued has set its field of
\* the simulated state: setSlope(c) the slope, setTopSpeed(v) the top
\* speed, setStartSpeed(v) the start speed, setCutoffSpeed(v) the cutoff
\* speed.
C18_SpeedSettersUpdateSimState ==
    (Returned /\ ~op.execute)
        => /\ op.name = "setSlope" => sim_state.slope = op.a
           /\ op.name = "setTopSpeed" => sim_state.top_speed = op.a
           /\ op.name = "setStartSpeed" => sim_state.start_speed = op.a
           /\ op.name = "setCutoffSpeed" => sim_state.cutoff_speed = op.a

\* C19: with start = top = cutoff speed = v > 0 a move of s standard steps
\* is timed at 2*s/v seconds: the queued move adds t ms to the estimated
\* time, t the whole milliseconds of 2000*s/v (v*t <= 2000*s < v*(t+1)).
C19_ConstantSpeedTime ==
    [][ ( /\ calls' < calls
          /\ op'.name = "movePlungerAbs"
          /\ raised' = NoExc
          /\ ~sim_state.microstep
          /\ sim_state.top_speed > 0
          /\ sim_state.start_speed = sim_state.top_speed
          /\ sim_state.cutoff_speed = sim_state.top_speed )
            => LET s == Abs(sim_state.plunger_pos - op'.a)
                   v == sim_state.top_speed
                   t == exec_time' - exec_time
               IN  v * t <= 2000 * s /\ 2000 * s < v * (t + 1) ]_vars

\* C19 witness: 3000 standard steps at 1000 pulses/sec were timed at 6 s
C19_Witness ==
    /\ Ended
    /\ op.name = "movePlungerAbs"
    /\ op.a = 3000
    /\ raised = NoExc
    /\ ~sim_state.microstep
    /\ state.plunger_pos = 0
    /\ sim_state.start_speed = 1000
    /\ sim_state.top_speed = 1000
    /\ sim_state.cutoff_speed = 1000
    /\ exec_time = 6000

\* C20: for a fixed speed profile the estimate never decreases with the
\* step count: the time of the move just queued from position 0 is at
\* least the estimate for every smaller step count.
C20_TimeMonotoneInSteps ==
    ( /\ Ended
      /\ op.name = "movePlungerAbs"
      /\ raised = NoExc
      /\ state.plunger_pos = 0
      /\ pending = << "A" \o ToString(op.a) >> )
        => \A s1 \in StepArgs :
              (s1 <= op.a /\ calcPlungerMoveTime(sim_state, s1).k = "ok")
                  => calcPlungerMoveTime(sim_state, s1).ms <= exec_time

Max(a, b) == IF a >= b THEN a ELSE b

\* C21: a call that executed the chain with wait_ready=False and returned
\* gives max(0, E - elapsed): E the estimated time when the chain was
\* transmitted, elapsed the time since then, also when a recoverable error
\* was absorbed during the transmission.
C21_ExecuteChainReturnsRemaining ==
    (Returned /\ ExecutingCall /\ ~op.wait_ready)
        => \A k \in SentAs("chain") :
              /\ rv.t = "num"
              /\ rv.n = Max(0, wire[k].est - (now - wire[k].at))
              /\ rv.n >= 0

\* C22: the command a recovery keeps for the resend is the command whose
\* response carried the recoverable error (the exchange made last, 'Q' when
\* the error was seen on a ready poll), so not the init command unless that
\* was the command that failed; once the pump is ready again that command,
\* and nothing else, is resent.
C22_ResendsFailedCommand ==
    /\ ( /\ Len(stack) >= 2
         /\ stack[1].proc = "init"
         /\ stack[1].pc = "start"
         /\ stack[2].proc \in HandlerProcs
         /\ stack[2].pc = "h_init" )
            => stack[2].last_cmd = wire[Len(wire)].cmd
    /\ ( /\ Len(stack) >= 2
         /\ stack[1].proc = "sendRcv"
         /\ stack[1].role = "resend"
         /\ stack[2].proc \in HandlerProcs
         /\ stack[2].pc = "h_resend" )
            => stack[1].cmd = stack[2].last_cmd

\* C23: every decoded response sets the repeat flag exactly when its error
\* code equals the code of the response decoded before it, and becomes the
\* previous code; a ready poll answered with a non-zero code that repeats
\* raises nothing and gives the ready bit of that response (the wait
\* returns when it is set and sleeps one interval when it is not), and one
\* answered with another non-zero code raises a SyringeError with the code.
C23_RepeatErrorTolerated ==
    [][ Len(wire') = Len(wire) + 1
          => LET e == wire'[Len(wire')]
             IN  /\ repeat_error' <=> (e.err = prev_error_code)
                 /\ prev_error_code' = e.err
                 /\ Len(wire) >= 1 => prev_error_code = wire[Len(wire)].err
                 /\ (e.role = "poll" /\ e.err # 0 /\ e.err = prev_error_code)
                       => /\ exc' = NoExc
                          /\ ready' => (stack' = Tail(stack) /\ now' = now)
                          /\ ~ready'
                                => /\ stack' = stack
                                   /\ now' = now + Top.polling_interval
                 /\ (e.role = "poll" /\ e.err # 0 /\ e.err # prev_error_code)
                       => /\ exc' = SyringeError(e.err)
                          /\ stack' = stack ]_vars

\* C23 witness: terminateCmd() ended on code 2; the waitReady() called next
\* had its first poll answered with code 2 again, ready, and returned
C23_Witness ==
    /\ Returned
    /\ op.name = "waitReady"
    /\ Len(wire) = 1
    /\ wire[1].role = "poll"
    /\ wire[1].err = 2
    /\ repeat_error
    /\ ready

\* C24: a changePort(to, clockwise) that succeeds appends 'I<to>' when the
\* move is clockwise and 'O<to>' when it is not, sets the simulated port to
\* `to' and adds 20 * delta + 100 ms to the estimated time, delta the hop
\* count of the direction used ((to - from) mod N clockwise, N minus that
\* counter-clockwise), the direction chosen (clockwise exactly when its hop
\* count is not the larger) or forced.
C24_ChangePortEffect ==
    [][ (calls' < calls /\ op'.name = "changePort" /\ raised' = NoExc)
          => LET to == op'.a
                 cw == (to - sim_state.port) % num_ports
                 ccw == num_ports - cw
                 clockwise == IF op'.s = "None" THEN cw <= ccw
                              ELSE op'.s = "True"
                 delta == IF clockwise THEN cw ELSE ccw
                 token == (IF clockwise THEN "I" ELSE "O") \o ToString(to)
             IN  /\ pending' = Append(pending, token)
                 /\ cmd_chain' = cmd_chain \o token
                 /\ sim_state' = [sim_state EXCEPT !.port = to]
                 /\ exec_time' = exec_time + 20 * delta + 100 ]_vars

\* C24 witness: on the valve of 8 ports, from port 1 (reached from 2 by
\* 'O1', 120 ms) changePort(6) with no direction forced queued 'O6' and
\* added 20 * 3 + 100 ms
C24_Witness ==
    /\ Ended
    /\ op.name = "changePort"
    /\ op.a = 6
    /\ op.s = "None"
    /\ raised = NoExc
    /\ pending = << "O1", "O6" >>
    /\ sim_state.port = 6
    /\ exec_time = 120 + 160

\* C25: in a pending chain a queued call that succeeds works from the
\* simulated state the calls before it left: movePlungerAbs(x) adds the
\* time of a move of |x - simulated position| steps and sets the simulated
\* position to x, movePlungerRel(r) adds r to the simulated position and
\* the time of |r| steps, changePort(to) adds 20 * delta + 100 ms with
\* delta counted from the simulated port.
C25_QueuedCallsUseSimState ==
    [][ (calls' < calls /\ raised' = NoExc /\ ~op'.execute)
          => /\ op'.name = "movePlungerAbs"
                  => /\ sim_state'.plunger_pos = op'.a
                     /\ exec_time' - exec_time =
                           calcPlungerMoveTime(sim_state,
                               Abs(op'.a - sim_state.plunger_pos)).ms
             /\ op'.name = "movePlungerRel"
                  => /\ sim_state'.plunger_pos =
                           sim_state.plunger_pos + op'.a
                     /\ exec_time' - exec_time =
                           calcPlungerMoveTime(sim_state, Abs(op'.a)).ms
             /\ op'.name = "changePort"
                  => LET cw == (op'.a - sim_state.port) % num_ports
                         turn == IF op'.s = "None" THEN cw <= num_ports - cw
                                 ELSE op'.s = "True"
                     IN  exec_time' - exec_time =
                           20 * (IF turn THEN cw ELSE num_ports - cw) + 100
        ]_vars

\* C25 witness: in standard mode, speeds 1000, confirmed position 1000:
\* movePlungerRel(100) (0.2 s) moved the simulated position to 1100 and
\* movePlungerAbs(500) was then timed for 600 steps (1.2 s)
C25_Witness ==
    /\ Ended
    /\ op.name = "movePlungerAbs"
    /\ raised = NoExc
    /\ ~sim_state.microstep
    /\ pending = << "P100", "A500" >>
    /\ state.plunger_pos = 1000
    /\ sim_state.plunger_pos = 500
    /\ exec_time = 200 + 1200

\* the calls that only build the chain
ChainBuilding == Chainable \ {"haltExec"}

\* C26: a chain-building call made without execute, valid or not, ends at
\* once and leaves every field of the confirmed state as it was; the
\* confirmed state changes only when a report command called by the user,
\* or by resetChain(on_execute=True) after the chain was executed, stores
\* the number it read, or when that resetChain copies slope and microstep.
C26_ConfirmedStateFrame ==
    [][ /\ (calls' < calls /\ op'.name \in ChainBuilding /\ ~op'.execute)
            => (state' = state /\ stack' = << >>)
        /\ state' # state
            => /\ stack # << >>
               /\ \/ Top.proc = "resetChain" /\ Top.on_execute
                  \/ /\ Top.proc \in {"get", "getCurPort"}
                     /\ Top.pc = "parse"
                     /\ \/ Len(stack) = 1
                        \/ /\ stack[2].proc = "resetChain"
                           /\ stack[2].on_execute ]_vars

\* C26 witness: movePlungerAbs(500) was queued: the simulated position is
\* 500, the confirmed one still 1000, and nothing was transmitted
C26_Witness ==
    /\ Ended
    /\ op.name = "movePlungerAbs"
    /\ ~op.execute
    /\ raised = NoExc
    /\ pending # << >>
    /\ wire = << >>
    /\ sim_state.plunger_pos = 500
    /\ state.plunger_pos = 1000

\* C27: the time estimate is defined for every validated input: with a
\* slope code in 1..20, speeds that are not negative, start <= top and
\* cutoff <= top, in either stepping mode, a movePlungerAbs to a position
\* in the plunger's range ends without an exception.
C27_TimeEstimateDefined ==
    ( /\ Ended
      /\ op.name = "movePlungerAbs"
      /\ op.a \in (IF state.microstep THEN 0 .. 24000 ELSE 0 .. 3000)
      /\ state.slope \in 1 .. 20
      /\ 0 <= state.start_speed
      /\ 0 <= state.cutoff_speed
      /\ state.start_speed <= state.top_speed
      /\ state.cutoff_speed <= state.top_speed
      /\ pending = << "A" \o ToString(op.a) >> )
        => raised = NoExc

\* C28: a waitReady that returns normally, no response of the call having
\* carried an error, has transmitted a status query 'Q' and returns on the
\* ready bit of the response to the last one, not on a flag kept from the
\* response to an earlier command.
C28_WaitReadyPollsFresh ==
    ( /\ Returned
      /\ op.name = "waitReady"
      /\ \A k \in WireIndex : wire[k].err = 0 )
        => /\ SentAs("poll") # {}
           /\ wire[Len(wire)].role = "poll"
           /\ wire[Len(wire)].cmd = "Q"
           /\ ready

====
